---- MODULE Spec2Model ----
(***************************************************************************)
(* OpenApiGenerator (src/_tool.py) with its helpers (src/utils.py) and     *)
(* record declarations (src/gen_types.py, src/example_service_endpoint.py) *)
(*                                                                         *)
(* Representation.                                                         *)
(*   - A Python str that the code inspects character by character (names,  *)
(*     keys, paths, methods, $ref targets) is a sequence of one-character  *)
(*     strings.  Opaque literals (the values "object", "string", ... of    *)
(*     the "type" key, "Success", "Request body") are TLA+ strings.        *)
(*   - A Python dict with computed keys (the schema registry, properties,  *)
(*     components.parameters, paths, a path item, responses, content) is   *)
(*     an insertion-ordered sequence of [key, val] entries.                *)
(*   - A Python dict with literal keys (a schema fragment, a parameter     *)
(*     object, a method entry) is a function on those literal keys.        *)
(***************************************************************************)
EXTENDS Integers, Sequences, FiniteSets, TLC

(***************************************************************************)
(* Bounds                                                                  *)
(***************************************************************************)
\* the interpreter's recursion limit, counted in nested record compilations
RecursionLimit == 5
\* longest list of services handed to process_services
MaxServices == 2
\* most fields of a record drawn for the record compiler
MaxFields == 2

(***************************************************************************)
(* str                                                                     *)
(***************************************************************************)
Lowers == <<"a","b","c","d","e","f","g","h","i","j","k","l","m",
            "n","o","p","q","r","s","t","u","v","w","x","y","z">>
Uppers == <<"A","B","C","D","E","F","G","H","I","J","K","L","M",
            "N","O","P","Q","R","S","T","U","V","W","X","Y","Z">>

\* str.upper() of one character
CharUpper(c) ==
    IF \E i \in 1..Len(Lowers) : Lowers[i] = c
    THEN Uppers[CHOOSE i \in 1..Len(Lowers) : Lowers[i] = c]
    ELSE c

\* str.lower() of one character
CharLower(c) ==
    IF \E i \in 1..Len(Uppers) : Uppers[i] = c
    THEN Lowers[CHOOSE i \in 1..Len(Uppers) : Uppers[i] = c]
    ELSE c

\* str.lower()
StrLower(s) == [i \in 1..Len(s) |-> CharLower(s[i])]

\* str.capitalize(): first character upper-cased, the rest lower-cased
StrCapitalize(s) ==
    [i \in 1..Len(s) |-> IF i = 1 THEN CharUpper(s[i]) ELSE CharLower(s[i])]

\* str.startswith(p)
StartsWith(s, p) == Len(s) >= Len(p) /\ SubSeq(s, 1, Len(p)) = p

\* str.split(sep) for a one-character separator
RECURSIVE StrSplit(_, _)
StrSplit(s, sep) ==
    IF \E i \in 1..Len(s) : s[i] = sep
    THEN LET i == CHOOSE j \in 1..Len(s) :
                     s[j] = sep /\ \A l \in 1..(j - 1) : s[l] # sep
         IN  <<SubSeq(s, 1, i - 1)>> \o StrSplit(SubSeq(s, i + 1, Len(s)), sep)
    ELSE <<s>>

\* "".join(list)
RECURSIVE StrJoin(_)
StrJoin(ws) == IF ws = << >> THEN << >> ELSE Head(ws) \o StrJoin(Tail(ws))

\* the comprehension of snake_case_to_camel_case: idx is the position in the
\* unfiltered split (0-based in the source, 1-based here), empty words dropped
RECURSIVE CamelWords(_, _)
CamelWords(words, idx) ==
    IF idx > Len(words) THEN << >>
    ELSE LET w == words[idx]
         IN  IF w = << >> THEN CamelWords(words, idx + 1)
             ELSE <<IF idx = 1 THEN w ELSE <<CharUpper(w[1])>> \o Tail(w)>>
                  \o CamelWords(words, idx + 1)

snake_case_to_camel_case(string) == StrJoin(CamelWords(StrSplit(string, "_"), 1))

(***************************************************************************)
(* dict (insertion ordered)                                                *)
(***************************************************************************)
EmptyDict == << >>

DictHas(d, k) == \E i \in 1..Len(d) : d[i].key = k

\* d[k]
DictGet(d, k) == d[CHOOSE i \in 1..Len(d) : d[i].key = k].val

\* d[k] = v : an existing key keeps its position
DictPut(d, k, v) ==
    IF DictHas(d, k)
    THEN [i \in 1..Len(d) |-> IF d[i].key = k THEN [key |-> k, val |-> v] ELSE d[i]]
    ELSE Append(d, [key |-> k, val |-> v])

\* d.pop(k) for a key that is present
DictPop(d, k) ==
    LET keep(e) == e.key # k IN SelectSeq(d, keep)

\* d.update(e),  d |= e
RECURSIVE DictUpdate(_, _)
DictUpdate(d, e) ==
    IF e = << >> THEN d
    ELSE DictUpdate(DictPut(d, Head(e).key, Head(e).val), Tail(e))

(***************************************************************************)
(* Names                                                                   *)
(***************************************************************************)
S_domainName == <<"d","o","m","a","i","n","N","a","m","e">>
S_queryStringParameters == <<"q","u","e","r","y","S","t","r","i","n","g","P","a","r","a","m","e","t","e","r","s">>
S_QueryStringParameters == <<"Q","u","e","r","y","S","t","r","i","n","g","P","a","r","a","m","e","t","e","r","s">>
S_pathParameters == <<"p","a","t","h","P","a","r","a","m","e","t","e","r","s">>
S_pathPatameters == <<"p","a","t","h","P","a","t","a","m","e","t","e","r","s">>
S_PathParameters == <<"P","a","t","h","P","a","r","a","m","e","t","e","r","s">>
S_bodyInput == <<"b","o","d","y","I","n","p","u","t">>
S_BodyInput == <<"B","o","d","y","I","n","p","u","t">>
S_bodyOutput == <<"b","o","d","y","O","u","t","p","u","t">>
S_contentType == <<"_","c","o","n","t","e","n","t","T","y","p","e">>
S_applicationJson == <<"a","p","p","l","i","c","a","t","i","o","n","/","j","s","o","n">>
S_textPlain == <<"t","e","x","t","/","p","l","a","i","n">>
S_refSchemas == <<"#","/","c","o","m","p","o","n","e","n","t","s","/","s","c","h","e","m","a","s","/">>
S_refParameters == <<"#","/","c","o","m","p","o","n","e","n","t","s","/","p","a","r","a","m","e","t","e","r","s","/">>
S_underscore == <<"_">>
S_slash == <<"/">>

S_RequestSchema == <<"R","e","q","u","e","s","t","S","c","h","e","m","a">>
S_ResponseSchema == <<"R","e","s","p","o","n","s","e","S","c","h","e","m","a">>
S_OutputBody == <<"O","u","t","p","u","t","B","o","d","y">>
S_QueryStringParametersUser == <<"Q","u","e","r","y","S","t","r","i","n","g","P","a","r","a","m","e","t","e","r","s","U","s","e","r">>
S_QueryStringParametersOrganization == <<"Q","u","e","r","y","S","t","r","i","n","g","P","a","r","a","m","e","t","e","r","s","O","r","g","a","n","i","z","a","t","i","o","n">>
S_user == <<"u","s","e","r">>
S_organizationName == <<"o","r","g","a","n","i","z","a","t","i","o","n","N","a","m","e">>
S_userId == <<"u","s","e","r","I","d">>
S_QReq == <<"Q","R","e","q">>
S_UserPath == <<"U","s","e","r","P","a","t","h">>
S_UserReq == <<"U","s","e","r","R","e","q">>
S_OrderReq == <<"O","r","d","e","r","R","e","q">>
S_PlainReq == <<"P","l","a","i","n","R","e","q">>
S_NoteReq == <<"N","o","t","e","R","e","q">>
S_Body == <<"B","o","d","y">>
S_GeoResponse == <<"G","e","o","R","e","s","p","o","n","s","e">>
S_GeoBody == <<"G","e","o","B","o","d","y">>
S_geo_pt == <<"g","e","o","_","p","t">>
S_Geo_Pt == <<"G","e","o","_","P","t">>
S_Text_Resp == <<"T","e","x","t","_","R","e","s","p">>
S_Node == <<"N","o","d","e">>
S_a == <<"a">>
S_b_c == <<"b","_","c">>
S_m == <<"_","m">>
S_worldUserId == <<"w","o","r","l","d","/","{","u","s","e","r","I","d","}">>
S_code == <<"c","o","d","e">>
S_message == <<"m","e","s","s","a","g","e">>
S_response == <<"r","e","s","p","o","n","s","e">>

(***************************************************************************)
(* Type descriptors: what typing.get_origin / get_args, inspect.isclass,   *)
(* dataclasses.is_dataclass and dataclasses.fields report about a type     *)
(***************************************************************************)
T_str == [k |-> "str"]
T_int == [k |-> "int"]
T_float == [k |-> "float"]
T_bool == [k |-> "bool"]
T_dict == [k |-> "dict"]
T_None == [k |-> "NoneType"]
\* typing.Union[...] (typing.Optional[X] is typing.Union[X, None])
T_Union(args) == [k |-> "Union", args |-> args]
\* X | Y
T_UnionType(args) == [k |-> "UnionType", args |-> args]
T_List(item) == [k |-> "list", item |-> item]
T_Enum(name, values) == [k |-> "Enum", name |-> name, values |-> values]
\* a dataclass, by __name__
T_Dataclass(name) == [k |-> "dataclass", name |-> name]

\* dataclasses.MISSING
MISSING == [missing |-> TRUE]
DefaultStr(s) == [str |-> s]
DefaultObj(clsName) == [obj |-> clsName]

Field(n, t) == [name |-> n, type |-> t, default |-> MISSING]
FieldD(n, t, d) == [name |-> n, type |-> t, default |-> d]

(***************************************************************************)
(* The record declarations of the run.  A class is what dataclasses.fields *)
(* and attribute lookup report: its __name__, its own annotated fields in  *)
(* declared order with their defaults, and its base class.                 *)
(***************************************************************************)
Class(n, base, fields) == [name |-> n, base |-> base, fields |-> fields]

\* src/example_service_endpoint.py
C_QueryStringParametersUser == Class(S_QueryStringParametersUser, "object", <<Field(S_user, T_str)>>)
C_QueryStringParametersOrganization == Class(S_QueryStringParametersOrganization, "object", <<Field(S_organizationName, T_str)>>)
C_PathParameters == Class(S_PathParameters, "object", <<Field(S_userId, T_str)>>)
C_OutputBody ==
    Class(S_OutputBody, "object",
          <<Field(S_code, T_int), Field(S_message, T_str), Field(S_response, T_dict),
            FieldD(S_contentType, T_str, DefaultStr(S_applicationJson))>>)
C_RequestSchema ==
    Class(S_RequestSchema, "AbstractInput",
          <<FieldD(S_domainName, T_str, DefaultStr(S_underscore)),
            Field(S_queryStringParameters,
                  T_UnionType(<<T_Dataclass(S_QueryStringParametersUser), T_Dataclass(S_QueryStringParametersOrganization)>>)),
            Field(S_pathParameters, T_Dataclass(S_PathParameters))>>)
C_ResponseSchema ==
    Class(S_ResponseSchema, "AbstractOutput",
          <<Field(S_bodyOutput, T_Dataclass(S_OutputBody))>>)

\* further declarations an endpoint author can write against src/gen_types.py
C_QueryStringParameters ==
    Class(S_QueryStringParameters, "object",
          <<Field(<<"q">>, T_Union(<<T_str, T_None>>))>>)
C_QReq ==
    Class(S_QReq, "AbstractInput",
          <<Field(S_queryStringParameters, T_Dataclass(S_QueryStringParameters))>>)
C_UserPath == Class(S_UserPath, "object", <<Field(S_userId, T_str)>>)
C_UserReq ==
    Class(S_UserReq, "AbstractInput",
          <<FieldD(S_domainName, T_str, DefaultStr(<<"u","s","e","r","s">>)),
            Field(S_pathParameters, T_Dataclass(S_UserPath))>>)
C_BodyInput ==
    Class(S_BodyInput, "object",
          <<Field(<<"n","a","m","e">>, T_str), Field(<<"a","g","e">>, T_Union(<<T_int, T_None>>))>>)
C_OrderReq ==
    Class(S_OrderReq, "AbstractInput",
          <<FieldD(S_domainName, T_str, DefaultStr(<<"o","r","d","e","r","s">>)),
            FieldD(S_bodyInput, T_Dataclass(S_BodyInput), DefaultObj(S_BodyInput))>>)
C_PlainReq ==
    Class(S_PlainReq, "AbstractInput",
          <<Field(S_bodyInput, T_Dataclass(S_BodyInput))>>)
C_Body == Class(S_Body, "object", <<Field(<<"n","o","t","e">>, T_str)>>)
C_NoteReq ==
    Class(S_NoteReq, "AbstractInput",
          <<FieldD(S_domainName, T_str, DefaultStr(<<"n","o","t","e","s">>)),
            FieldD(S_bodyInput, T_Dataclass(S_Body), DefaultObj(S_Body))>>)
C_Geo_Pt == Class(S_Geo_Pt, "object", <<Field(<<"l","a","t">>, T_float)>>)
C_GeoBody ==
    Class(S_GeoBody, "object",
          <<Field(S_geo_pt, T_Dataclass(S_Geo_Pt)),
            FieldD(S_contentType, T_str, DefaultStr(S_textPlain))>>)
C_GeoResponse ==
    Class(S_GeoResponse, "AbstractOutput",
          <<Field(S_bodyOutput, T_Dataclass(S_GeoBody))>>)
C_Text_Resp ==
    Class(S_Text_Resp, "AbstractOutput",
          <<Field(S_bodyOutput, T_Dataclass(S_OutputBody))>>)
\* a record whose field refers to the record itself
C_Node ==
    Class(S_Node, "object",
          <<Field(<<"n","e","x","t">>, T_Union(<<T_Dataclass(S_Node), T_None>>))>>)

Classes ==
    {C_QueryStringParametersUser, C_QueryStringParametersOrganization, C_PathParameters, C_OutputBody, C_RequestSchema,
     C_ResponseSchema, C_QueryStringParameters, C_QReq, C_UserPath, C_UserReq,
     C_BodyInput, C_OrderReq, C_PlainReq, C_Body, C_NoteReq, C_Geo_Pt,
     C_GeoBody, C_GeoResponse, C_Text_Resp, C_Node}

\* the class object a type descriptor names
ClassOf(n) == CHOOSE c \in Classes : c.name = n

\* bool(cls.attr) for one of the four group attributes of an AbstractInput
\* subclass: a dataclass keeps a field's default as a class attribute; a field
\* without a default leaves the attribute to AbstractInput, which sets it to None
AttrTruthy(cls, attr) ==
    LET own == {i \in 1..Len(cls.fields) :
                    cls.fields[i].name = attr /\ cls.fields[i].default # MISSING}
    IN  IF own # {}
        THEN LET d == cls.fields[CHOOSE i \in own : TRUE].default
             IN  IF "str" \in DOMAIN d THEN d.str # << >> ELSE "obj" \in DOMAIN d
        ELSE FALSE

\* getattr(inputSchema, "domainName", "_")
GetDomainName(cls) ==
    LET own == {i \in 1..Len(cls.fields) :
                    cls.fields[i].name = S_domainName
                    /\ cls.fields[i].default # MISSING}
    IN  IF own # {} THEN cls.fields[CHOOSE i \in own : TRUE].default.str
        ELSE S_underscore

(***************************************************************************)
(* Schema fragments                                                        *)
(***************************************************************************)
SchemaRef(n) == ("$ref" :> (S_refSchemas \o n))
ParameterRef(n) == ("$ref" :> (S_refParameters \o n))
HasRef(schema) == "$ref" \in DOMAIN schema

\* the outcome of a resolver call: the tuple it returns, or err when the
\* nesting of calls passed the interpreter's recursion limit (RecursionError)
Returned(schema, defs) == [schema |-> schema, defs |-> defs, err |-> FALSE]
Raised(defs) == [schema |-> EmptyDict, defs |-> defs, err |-> TRUE]

(***************************************************************************)
(* OpenApiGenerator.is_optional.  get_origin never yields typing.Optional, *)
(* so the middle disjunct of the source is never true.                     *)
(***************************************************************************)
\* is_optional gone wrong: no type is taken for optional
IsOptionalNever(tp) == FALSE

is_optional(tp) ==
    /\ tp.k \in {"Union", "UnionType"}
    /\ \E i \in 1..Len(tp.args) : tp.args[i] = T_None

(***************************************************************************)
(* OpenApiGenerator.type_to_schema and dataclass_to_openapi_schema.        *)
(* known_defs / root_types is one dict mutated in place by every nested    *)
(* call; here each call returns the dict as it has left it.                *)
(***************************************************************************)
RECURSIVE type_to_schema(_, _, _)
RECURSIVE dataclass_to_openapi_schema(_, _, _)
RECURSIVE OneOfMembers(_, _, _, _)
RECURSIVE FieldsLoop(_, _, _, _, _)

NonNoneArgs(t) == LET notNone(a) == a # T_None IN SelectSeq(t.args, notNone)

\* the list comprehension of the oneOf branch, member by member
OneOfMembers(args, acc, known_defs, depth) ==
    IF args = << >> THEN Returned(acc, known_defs)
    ELSE LET r == type_to_schema(Head(args), known_defs, depth)
         IN  IF r.err THEN Raised(r.defs)
             ELSE OneOfMembers(Tail(args), Append(acc, r.schema), r.defs, depth)

type_to_schema(t, known_defs, depth) ==
    IF t.k \in {"Union", "UnionType"}
    THEN LET args == NonNoneArgs(t)
         IN  IF Len(args) = 1
             THEN type_to_schema(args[1], known_defs, depth)
             ELSE LET r == OneOfMembers(args, << >>, known_defs, depth)
                  IN  IF r.err THEN r
                      ELSE Returned(("oneOf" :> r.schema), r.defs)
    ELSE IF t.k = "list"
    THEN LET r == type_to_schema(t.item, known_defs, depth)
         IN  IF r.err THEN r
             ELSE Returned(("type" :> "array") @@ ("items" :> r.schema), r.defs)
    ELSE IF t.k = "Enum"
    THEN Returned(("type" :> "string") @@ ("enum" :> t.values), known_defs)
    ELSE IF t.k = "dataclass"
    THEN IF ~DictHas(known_defs, t.name)
         THEN LET r == dataclass_to_openapi_schema(ClassOf(t.name), known_defs,
                                                   depth + 1)
              IN  IF r.err THEN r
                  ELSE Returned(SchemaRef(t.name),
                                DictPut(r.defs, t.name, r.schema))
         ELSE Returned(SchemaRef(t.name), known_defs)
    ELSE IF t.k = "str" THEN Returned(("type" :> "string"), known_defs)
    ELSE IF t.k = "int" THEN Returned(("type" :> "integer"), known_defs)
    ELSE IF t.k = "float" THEN Returned(("type" :> "number"), known_defs)
    ELSE IF t.k = "bool" THEN Returned(("type" :> "boolean"), known_defs)
    ELSE Returned(("type" :> "string"), known_defs)

\* the for loop over dataclasses.fields(cls)
FieldsLoop(fields, props, required, root_types, depth) ==
    IF fields = << >>
    THEN [props |-> props, required |-> required, defs |-> root_types, err |-> FALSE]
    ELSE LET field == Head(fields)
         IN  IF StartsWith(field.name, S_underscore)
             THEN FieldsLoop(Tail(fields), props, required, root_types, depth)
             ELSE LET r == type_to_schema(field.type, root_types, depth)
                  IN  IF r.err
                      THEN [props |-> props, required |-> required,
                            defs |-> r.defs, err |-> TRUE]
                      ELSE FieldsLoop(Tail(fields),
                                      DictPut(props, field.name, r.schema),
                                      IF ~is_optional(field.type)
                                      THEN Append(required, field.name)
                                      ELSE required,
                                      DictUpdate(r.defs, r.defs),
                                      depth)

dataclass_to_openapi_schema(cls, root_types, depth) ==
    IF depth > RecursionLimit THEN Raised(root_types)
    ELSE LET l == FieldsLoop(cls.fields, EmptyDict, << >>, root_types, depth)
             schema == IF l.required # << >>
                       THEN ("type" :> "object") @@ ("properties" :> l.props)
                            @@ ("required" :> l.required)
                       ELSE ("type" :> "object") @@ ("properties" :> l.props)
         IN  IF l.err THEN Raised(l.defs)
             ELSE Returned(schema, DictPut(l.defs, cls.name, schema))

(***************************************************************************)
(* src/utils.py deep_change_keys_by_format, with format =                  *)
(* snake_case_to_camel_case (its only caller, setSchemas, passes that).    *)
(* The source tells list, dict and leaf apart with isinstance; here the    *)
(* literal key of a fragment tells what its value is: "properties" a dict  *)
(* of fragments, "items" a fragment, "oneOf" a list of fragments,          *)
(* "required" and "enum" lists of leaves, "type" and "$ref" leaves.  The   *)
(* literal keys hold no "_", and format returns such a key unchanged.      *)
(***************************************************************************)
RECURSIVE deep_change_keys_by_format(_)
RECURSIVE DeepChangeFragment(_)
RECURSIVE DeepChangeItems(_, _)

\* the dict branch: new_dict[format(key)] = deep_change_keys_by_format(value)
DeepChangeItems(items, new_dict) ==
    IF items = << >> THEN new_dict
    ELSE DeepChangeItems(Tail(items),
                         DictPut(new_dict,
                                 snake_case_to_camel_case(Head(items).key),
                                 DeepChangeFragment(Head(items).val)))

DeepChangeFragment(frag) ==
    [key \in DOMAIN frag |->
        IF key = "properties" THEN DeepChangeItems(frag[key], EmptyDict)
        ELSE IF key = "items" THEN DeepChangeFragment(frag[key])
        ELSE IF key = "oneOf"
        THEN [i \in 1..Len(frag[key]) |-> DeepChangeFragment(frag[key][i])]
        ELSE frag[key]]

deep_change_keys_by_format(entity) == DeepChangeItems(entity, EmptyDict)

(***************************************************************************)
(* The document                                                            *)
(***************************************************************************)
None == [none |-> TRUE]

\* build_openapi_base: the document shell
OpenapiBase ==
    [openapi |-> "3.1.0",
     info |-> [title |-> "Service", description |-> "Description", version |-> "1.0"],
     components |-> [schemas |-> EmptyDict, parameters |-> EmptyDict,
                     responses |-> EmptyDict, examples |-> EmptyDict],
     paths |-> EmptyDict]

\* setSchemas, as the registry it leaves
setSchemas(registry, schemas, to_camel_case) ==
    IF to_camel_case
    THEN DictUpdate(registry, deep_change_keys_by_format(schemas))
    ELSE DictUpdate(registry, schemas)

\* keys of the responses dict: the int 200 and the str _name are different keys
IntKey(n) == [int |-> n]
StrKey(s) == [str |-> s]

\* a literal-keyed dict with key k set to v
SetKey(d, k, v) == (k :> v) @@ d

(***************************************************************************)
(* GeneratorConfig (src/gen_types.py)                                      *)
(***************************************************************************)
GeneratorConfig(operationId, httpMethod, httpPath, serviceInput, serviceOutput) ==
    [serviceName |-> "MyService", description |-> "My service description",
     operationId |-> operationId, httpMethod |-> httpMethod, httpPath |-> httpPath,
     serviceInput |-> serviceInput, serviceOutput |-> serviceOutput]

\* local variable bodyInputKey of process_services before its first assignment
Unbound == [unbound |-> TRUE]
Bound(v) == [value |-> v]

(***************************************************************************)
(* OpenApiGenerator.process_services: the body of its for loop, in source  *)
(* order.  A stage works on                                                *)
(*   schemas       components.schemas of the document                      *)
(*   parameters    components.parameters of the document                   *)
(*   info          httpMethodInfo, the method entry under the path item    *)
(*   local         the local dict `parameters` of this iteration           *)
(*   bodyInputKey  the local of that name, which outlives the iteration    *)
(*   exc           the exception that ended the call, "" while none has    *)
(* and a stage is skipped once exc is set: the document stays as the raise *)
(* found it.                                                               *)
(***************************************************************************)
NoExc == ""

\* lines 192-197
NormalPath(service) ==
    IF StartsWith(service.httpPath, S_slash) THEN service.httpPath
    ELSE S_slash \o service.httpPath

NormalMethod(service) == StrLower(service.httpMethod)

\* getattr(inputSchema, "domainName", "_").capitalize(), line 215
DomainName(service) == StrCapitalize(GetDomainName(ClassOf(service.serviceInput.name)))

\* lines 203-207
NewMethodInfo(service) ==
    ("operationId" :> service.operationId) @@ ("summary" :> service.description)
    @@ ("responses" :> EmptyDict)

\* lines 210-220
CheckSchemas(w, service) ==
    IF service.serviceInput = None \/ service.serviceOutput = None
    THEN [w EXCEPT !.exc = "ValueError"]
    ELSE w

\* if k in d: d.pop(k)
PopIfIn(d, k) == IF DictHas(d, k) THEN DictPop(d, k) ELSE d

\* if k in d: if "$ref" in d[k]: d.pop(k)
PopIfRef(d, k) ==
    IF DictHas(d, k) /\ HasRef(DictGet(d, k)) THEN DictPop(d, k) ELSE d

\* lines 224-236, r being what line 222 got
InputCompiled(w, r, to_camel_case) ==
    IF r.err THEN [w EXCEPT !.exc = "RecursionError"]
    ELSE [w EXCEPT !.schemas =
            setSchemas(
                PopIfRef(
                    PopIfRef(
                        PopIfIn(setSchemas(w.schemas, r.schema["properties"],
                                           to_camel_case),
                                S_domainName),
                        S_pathPatameters),
                    S_queryStringParameters),
                r.defs, to_camel_case)]

\* lines 222-236
CompileInput(w, service, to_camel_case) ==
    IF w.exc # NoExc THEN w
    ELSE InputCompiled(w,
                       dataclass_to_openapi_schema(
                           ClassOf(service.serviceInput.name), EmptyDict, 1),
                       to_camel_case)

\* line 240, r being what line 238 got
OutputCompiled(w, r, to_camel_case) ==
    IF r.err THEN [w EXCEPT !.exc = "RecursionError"]
    ELSE [w EXCEPT !.schemas = setSchemas(w.schemas, r.defs, to_camel_case)]

\* lines 238-240
CompileOutput(w, service, to_camel_case) ==
    IF w.exc # NoExc THEN w
    ELSE OutputCompiled(w,
                        dataclass_to_openapi_schema(
                            ClassOf(service.serviceOutput.name), EmptyDict, 1),
                        to_camel_case)

\* the raw key of a group: the lower-case key unless it is absent or a pure
\* reference, else the capitalized one (lines 244-249, 271-276, 308-313)
GroupTarget(schemas, raw, capitalized) ==
    IF DictHas(schemas, raw) /\ ~HasRef(DictGet(schemas, raw)) THEN raw
    ELSE capitalized

\* d[new] = d.pop(old): the right-hand side is evaluated first
DictRename(d, old, new) == DictPut(DictPop(d, old), new, DictGet(d, old))

\* lines 250-269, the branch taken when the target is in the registry
QueryRenamed(w, queryParamsTarget, queryParametersKey) ==
    [w EXCEPT
        !.schemas = PopIfIn(DictRename(w.schemas, queryParamsTarget,
                                       queryParametersKey),
                            S_queryStringParameters),
        !.local = DictPut(w.local, queryParametersKey,
                          ("name" :> queryParametersKey) @@ ("in" :> "query")
                          @@ ("required" :> FALSE)
                          @@ ("schema" :> SchemaRef(queryParametersKey))),
        !.info = SetKey(w.info, "parameters",
                        <<ParameterRef(queryParametersKey)>>)]

\* lines 250-269
QueryTargeted(w, service, queryParamsTarget) ==
    IF DictHas(w.schemas, queryParamsTarget)
    THEN QueryRenamed(w, queryParamsTarget,
                      DomainName(service) \o S_QueryStringParameters)
    ELSE [w EXCEPT !.info = SetKey(w.info, "parameters", << >>)]

\* lines 242-269
QueryGroup(w, service) ==
    IF w.exc # NoExc THEN w
    ELSE QueryTargeted(w, service,
                       GroupTarget(w.schemas, S_queryStringParameters,
                                   S_QueryStringParameters))

\* the for loop of lines 286-302 over _properties.items()
RECURSIVE PathProperties(_, _, _)
PathProperties(w, items, pathParametersKey) ==
    IF items = << >> THEN w
    ELSE LET key == Head(items).key
             name == pathParametersKey \o key
             param == ("name" :> key) @@ ("in" :> "path") @@ ("required" :> TRUE)
                      @@ ("schema" :> SchemaRef(name))
         IN  PathProperties(
                 [w EXCEPT !.schemas = DictPut(w.schemas, name, Head(items).val),
                           !.local = DictPut(w.local, name, param),
                           !.info = SetKey(w.info, "parameters",
                                           Append(w.info["parameters"],
                                                  ParameterRef(name)))],
                 Tail(items), pathParametersKey)

\* lines 303-306, after the loop
PathDiscarded(w, pathParametersKey) ==
    [w EXCEPT !.schemas = DictPop(PopIfIn(w.schemas, S_pathParameters),
                                  pathParametersKey)]

\* lines 284-306, s1 being the registry after the rename of lines 280-282
PathRenamed(w, s1, pathParametersKey) ==
    IF "properties" \notin DOMAIN DictGet(s1, pathParametersKey)
    THEN [w EXCEPT !.schemas = s1, !.exc = "KeyError"]
    ELSE PathDiscarded(PathProperties([w EXCEPT !.schemas = s1],
                                      DictGet(s1, pathParametersKey)["properties"],
                                      pathParametersKey),
                       pathParametersKey)

\* lines 277-306
PathTargeted(w, pathParamTarget, pathParametersKey) ==
    IF ~DictHas(w.schemas, pathParamTarget) THEN w
    ELSE PathRenamed(w,
                     DictRename(w.schemas, pathParamTarget, pathParametersKey),
                     pathParametersKey)

\* lines 271-306
PathGroup(w, service) ==
    IF w.exc # NoExc THEN w
    ELSE PathTargeted(w,
                      GroupTarget(w.schemas, S_pathParameters, S_PathParameters),
                      DomainName(service) \o S_PathParameters)

\* lines 314-317, the branch taken when the target is in the registry
BodyRenamed(w, bodyInputTarget, bodyInputKey) ==
    [w EXCEPT !.schemas = PopIfIn(DictRename(w.schemas, bodyInputTarget,
                                             bodyInputKey),
                                  S_bodyInput),
              !.bodyInputKey = Bound(bodyInputKey)]

\* lines 319-321
InputRecordDropped(w, service) ==
    [w EXCEPT !.schemas = PopIfIn(w.schemas, service.serviceInput.name)]

\* lines 314-321
BodyTargeted(w, service, bodyInputTarget) ==
    IF DictHas(w.schemas, bodyInputTarget)
    THEN InputRecordDropped(BodyRenamed(w, bodyInputTarget,
                                        DomainName(service) \o S_BodyInput),
                            service)
    ELSE InputRecordDropped(w, service)

\* lines 308-322
BodyGroup(w, service) ==
    IF w.exc # NoExc THEN w
    ELSE BodyTargeted(w, service,
                      GroupTarget(w.schemas, S_bodyInput, S_BodyInput))

\* lines 326-334
Requested(w) ==
    [w EXCEPT !.info =
        SetKey(w.info, "requestBody",
               ("description" :> "Request body")
               @@ ("content" :>
                     <<[key |-> S_applicationJson,
                        val |-> ("schema" :> SchemaRef(w.bodyInputKey.value))]>>))]

\* line 336
ParametersMerged(w) == [w EXCEPT !.parameters = DictUpdate(w.parameters, w.local)]

\* lines 324-336
RequestBody(w, service) ==
    IF w.exc # NoExc THEN w
    ELSE IF AttrTruthy(ClassOf(service.serviceInput.name), S_bodyInput)
    THEN IF w.bodyInputKey = Unbound
         THEN [w EXCEPT !.exc = "UnboundLocalError"]
         ELSE ParametersMerged(Requested(w))
    ELSE ParametersMerged(w)

\* get_type_hints(service.serviceOutput).get("bodyOutput"), line 352-354: the
\* declared type of the output record's bodyOutput field
InspectBody(service) ==
    LET fields == ClassOf(service.serviceOutput.name).fields
    IN  fields[CHOOSE i \in 1..Len(fields) : fields[i].name = S_bodyOutput].type

\* lines 364-373
SuccessResponse(contentType, schemaName) ==
    <<[key |-> IntKey(200),
       val |-> ("content" :> <<[key |-> contentType,
                                val |-> ("schema" :> SchemaRef(schemaName))]>>)
               @@ ("description" :> "Success")]>>

\* the responses dict as lines 339-342 leave it
ResponsesBefore(service) ==
    <<[key |-> StrKey(service.serviceOutput.name), val |-> EmptyDict]>>

\* line 364 left out: key 200 is merged into what responses held
ResponsesMerged(before, contentType, schemaName) ==
    before \o SuccessResponse(contentType, schemaName)

\* line 364 empties responses before line 365 sets key 200
ResponsesFinal(before, contentType, schemaName) ==
    SuccessResponse(contentType, schemaName)

\* the default of the first _contentType field of the body record, lines 358-362
InspectContent(bodyName) ==
    LET bodyFields == ClassOf(bodyName).fields
    IN  bodyFields[CHOOSE i \in 1..Len(bodyFields) :
                      /\ bodyFields[i].name = S_contentType
                      /\ \A j \in 1..(i - 1) : bodyFields[j].name # S_contentType
                  ].default.str

HasMarker(bodyName) ==
    \E i \in 1..Len(ClassOf(bodyName).fields) :
        ClassOf(bodyName).fields[i].name = S_contentType

\* lines 356-373, s2 being the registry after the pop of line 350
OutputRenamed(w, service, s2, bodyName, renamed) ==
    IF ~DictHas(s2, bodyName)
    THEN [w EXCEPT !.schemas = s2, !.exc = "KeyError"]
    ELSE IF ~HasMarker(bodyName)
    THEN [w EXCEPT !.schemas = DictRename(s2, bodyName, renamed),
                   !.exc = "IndexError"]
    ELSE [w EXCEPT !.schemas = DictRename(s2, bodyName, renamed),
                   !.info = SetKey(w.info, "responses",
                                   ResponsesFinal(w.info["responses"],
                                                  InspectContent(bodyName),
                                                  renamed))]

\* lines 346-373, s1 being the registry after the setSchemas of line 348
OutputRegistered(w, service, s1) ==
    IF ~DictHas(s1, service.serviceOutput.name)
    THEN [w EXCEPT !.schemas = s1, !.exc = "KeyError"]
    ELSE OutputRenamed(w, service, DictPop(s1, service.serviceOutput.name),
                       InspectBody(service).name,
                       DomainName(service) \o InspectBody(service).name)

\* lines 344-373, r being what line 344 got
OutputResolved(w, service, r, to_camel_case) ==
    IF r.err THEN [w EXCEPT !.exc = "RecursionError"]
    ELSE OutputRegistered(w, service, setSchemas(w.schemas, r.defs, to_camel_case))

\* lines 338-373
OutputGroup(w, service, to_camel_case) ==
    IF w.exc # NoExc THEN w
    ELSE OutputResolved([w EXCEPT !.info = SetKey(w.info, "responses",
                                                  ResponsesBefore(service))],
                        service,
                        dataclass_to_openapi_schema(
                            ClassOf(service.serviceOutput.name), EmptyDict, 1),
                        to_camel_case)

\* one iteration of the for loop of process_services: the stages in source
\* order, each applied to the value the stage before it left
CompileService(build, service, bodyInputKey, to_camel_case) ==
    LET w0 == [schemas |-> build.components.schemas,
               parameters |-> build.components.parameters,
               info |-> NewMethodInfo(service),
               local |-> EmptyDict,
               bodyInputKey |-> bodyInputKey,
               exc |-> NoExc]
    IN  CHOOSE w \in
          {OutputGroup(w7, service, to_camel_case) : w7 \in
          {RequestBody(w6, service) : w6 \in
          {BodyGroup(w5, service) : w5 \in
          {PathGroup(w4, service) : w4 \in
          {QueryGroup(w3, service) : w3 \in
          {CompileOutput(w2, service, to_camel_case) : w2 \in
          {CompileInput(w1, service, to_camel_case) : w1 \in
          {CheckSchemas(w0, service)}}}}}}}} : TRUE

\* targetPath[httpMethod] = httpMethodInfo under paths[httpPath] (lines 199-209)
SetMethod(paths, httpPath, httpMethod, info) ==
    LET item == IF DictHas(paths, httpPath) THEN DictGet(paths, httpPath)
                ELSE EmptyDict
    IN  DictPut(paths, httpPath, DictPut(item, httpMethod, info))

\* the document after the iteration
BuildAfter(build, service, w) ==
    [build EXCEPT !.components.schemas = w.schemas,
                  !.components.parameters = w.parameters,
                  !.paths = SetMethod(build.paths, NormalPath(service),
                                      NormalMethod(service), w.info)]

(***************************************************************************)
(* State                                                                   *)
(***************************************************************************)
VARIABLES
    endpoint_config,        \* self.endpoint_config[0], the constructor's argument
    declared,               \* the endpoint list of the application
    to_camel_case_schemas,  \* self.to_camel_case_schemas
    openapi_build,          \* self.openapi_build: None or the document
    output_file,            \* the file at self.output_openapi_file: None or its content
    pc,                     \* "idle", "processing", "done", "failed"
    caller,                 \* which entry point runs the loop
    services_info,          \* the argument of process_services
    idx,                    \* position of the for loop in services_info
    bodyInputKey,           \* the local of process_services
    exc,                    \* the exception that ended the call
    cls,                    \* record compiler: the record handed to it
    result,                 \* record compiler: what it returned
    pcR                     \* record compiler: "off", "declared", "compiled"

vars == <<endpoint_config, declared, to_camel_case_schemas, openapi_build,
          output_file, pc, caller, services_info, idx, bodyInputKey, exc,
          cls, result, pcR>>

genVars == <<endpoint_config, declared, to_camel_case_schemas, openapi_build,
             output_file, pc, caller, services_info, idx, bodyInputKey, exc>>

recVars == <<cls, result, pcR>>

(***************************************************************************)
(* The endpoint descriptors a run is given                                 *)
(***************************************************************************)
\* src/example_service_endpoint.py endpoint_config
Sv_Example ==
    GeneratorConfig("myEndpoint", <<"G","E","T">>, S_worldUserId,
                    T_Dataclass(S_RequestSchema), T_Dataclass(S_ResponseSchema))
Sv_Geo ==
    GeneratorConfig("geo", <<"g","e","t">>, S_slash \o S_worldUserId,
                    T_Dataclass(S_RequestSchema), T_Dataclass(S_GeoResponse))
Sv_Query ==
    GeneratorConfig("search", <<"G","E","T">>, <<"/","q">>,
                    T_Dataclass(S_QReq), T_Dataclass(S_ResponseSchema))
Sv_User ==
    GeneratorConfig("getUser", <<"G","E","T">>, <<"/","u">>,
                    T_Dataclass(S_UserReq), T_Dataclass(S_ResponseSchema))
Sv_Order ==
    GeneratorConfig("putOrder", <<"P","U","T">>, <<"o">>,
                    T_Dataclass(S_OrderReq), T_Dataclass(S_ResponseSchema))
Sv_Plain ==
    GeneratorConfig("postPlain", <<"P","O","S","T">>, <<"/","p">>,
                    T_Dataclass(S_PlainReq), T_Dataclass(S_ResponseSchema))
Sv_Note ==
    GeneratorConfig("postNote", <<"P","O","S","T">>, <<"/","n">>,
                    T_Dataclass(S_NoteReq), T_Dataclass(S_GeoResponse))
Sv_Text ==
    GeneratorConfig("text", <<"P","O","S","T">>, <<"/","t">>,
                    T_Dataclass(S_QReq), T_Dataclass(S_Text_Resp))
Sv_NoInput ==
    GeneratorConfig("noInput", <<"G","E","T">>, <<"/","x">>,
                    None, T_Dataclass(S_ResponseSchema))
Sv_NoOutput ==
    GeneratorConfig("noOutput", <<"G","E","T">>, <<"/","y">>,
                    T_Dataclass(S_UserReq), None)

Services ==
    {Sv_Example, Sv_Geo, Sv_Query, Sv_User, Sv_Order, Sv_Plain, Sv_Note,
     Sv_Text, Sv_NoInput, Sv_NoOutput}

ServiceLists ==
    UNION {[1..n -> Services] : n \in 1..MaxServices}

(***************************************************************************)
(* OpenApiGenerator.__init__ with the OneEndpointConfig declaration: the   *)
(* constructor rejects a missing endpoint_config, so one is always held    *)
(***************************************************************************)
Init ==
    /\ declared \in ServiceLists
    /\ endpoint_config = declared[1]
    /\ to_camel_case_schemas \in BOOLEAN
    /\ openapi_build = None
    /\ output_file = None
    /\ pc = "idle"
    /\ caller = "none"
    /\ services_info = << >>
    /\ idx = 0
    /\ bodyInputKey = Unbound
    /\ exc = NoExc
    /\ cls = None
    /\ result = None
    /\ pcR = "off"

\* build_openapi_base, lines 142-153
BuildOpenapiBase ==
    /\ pc = "idle"
    /\ openapi_build = None
    /\ openapi_build' = OpenapiBase
    /\ UNCHANGED <<endpoint_config, declared, to_camel_case_schemas, output_file,
                   pc, caller, services_info, idx, bodyInputKey, exc>>
    /\ UNCHANGED recVars

\* generate, lines 375-384, up to the call of process_services
Generate ==
    /\ pc = "idle"
    /\ caller' = "generate"
    /\ IF openapi_build = None
       THEN /\ exc' = "ValueError"
            /\ pc' = "failed"
            /\ UNCHANGED <<services_info, idx>>
       ELSE /\ services_info' = <<endpoint_config>>
            /\ idx' = 1
            /\ pc' = "processing"
            /\ exc' = NoExc
    /\ bodyInputKey' = Unbound
    /\ UNCHANGED <<endpoint_config, declared, to_camel_case_schemas,
                   openapi_build, output_file>>
    /\ UNCHANGED recVars

\* process_services called by the application with its endpoint list; without
\* a document the first addPath (line 199) fails on None
ProcessServices ==
    /\ pc = "idle"
    /\ caller' = "process_services"
    /\ IF openapi_build = None
       THEN /\ exc' = "AttributeError"
            /\ pc' = "failed"
            /\ UNCHANGED <<services_info, idx>>
       ELSE /\ services_info' = declared
            /\ idx' = 1
            /\ pc' = "processing"
            /\ exc' = NoExc
    /\ bodyInputKey' = Unbound
    /\ UNCHANGED <<endpoint_config, declared, to_camel_case_schemas,
                   openapi_build, output_file>>
    /\ UNCHANGED recVars

\* the loop gone wrong: an exception is swallowed and the loop goes on
PcAfterSwallowed(e) == "processing"

\* an exception leaves the loop and the caller: neither has a handler
PcAfter(e) == IF e # NoExc THEN "failed" ELSE "processing"

\* one iteration of the for loop of process_services, lines 188-373
CompileEndpoint ==
    /\ pc = "processing"
    /\ idx <= Len(services_info)
    /\ \E w \in {CompileService(openapi_build, services_info[idx], bodyInputKey,
                                to_camel_case_schemas)} :
           /\ openapi_build' = BuildAfter(openapi_build, services_info[idx], w)
           /\ bodyInputKey' = w.bodyInputKey
           /\ exc' = w.exc
           /\ pc' = PcAfter(w.exc)
    /\ idx' = idx + 1
    /\ UNCHANGED <<endpoint_config, declared, to_camel_case_schemas, output_file,
                   caller, services_info>>
    /\ UNCHANGED recVars

\* the loop is over: process_services returns, generate dumps the document
\* (lines 386-389)
Return ==
    /\ pc = "processing"
    /\ idx > Len(services_info)
    /\ pc' = "done"
    /\ output_file' = IF caller = "generate" THEN openapi_build ELSE output_file
    /\ UNCHANGED <<endpoint_config, declared, to_camel_case_schemas,
                   openapi_build, caller, services_info, idx, bodyInputKey, exc>>
    /\ UNCHANGED recVars

Next ==
    \/ BuildOpenapiBase
    \/ Generate
    \/ ProcessServices
    \/ CompileEndpoint
    \/ Return

Spec == Init /\ [][Next]_vars

(***************************************************************************)
(* The record compiler on its own: a record declaration is drawn and       *)
(* dataclass_to_openapi_schema is applied to it                            *)
(***************************************************************************)
FieldNames == {S_a, S_b_c, S_m}

FieldTypes ==
    {T_str, T_int,
     T_Union(<<T_str, T_None>>),
     T_UnionType(<<T_None, T_int>>),
     T_Union(<<T_int, T_str>>),
     T_List(T_Union(<<T_str, T_None>>)),
     T_Enum(<<"K","i","n","d">>, <<S_b_c, S_a>>),
     T_Dataclass(S_QueryStringParametersUser),
     T_Union(<<T_Dataclass(S_Node), T_None>>)}

FieldDecls == {Field(n, t) : n \in FieldNames, t \in FieldTypes}

\* field lists of at most MaxFields fields with distinct names
FieldLists ==
    {fs \in UNION {[1..n -> FieldDecls] : n \in 0..MaxFields} :
        \A i, j \in 1..Len(fs) : fs[i].name = fs[j].name => i = j}

InitRecord ==
    /\ cls \in {Class(<<"R","e","c">>, "object", fs) : fs \in FieldLists}
    /\ result = None
    /\ pcR = "declared"
    /\ declared = << >>
    /\ endpoint_config = None
    /\ to_camel_case_schemas = TRUE
    /\ openapi_build = None
    /\ output_file = None
    /\ pc = "off"
    /\ caller = "none"
    /\ services_info = << >>
    /\ idx = 0
    /\ bodyInputKey = Unbound
    /\ exc = NoExc

CompileRecord ==
    /\ pcR = "declared"
    /\ result' = dataclass_to_openapi_schema(cls, EmptyDict, 1)
    /\ pcR' = "compiled"
    /\ UNCHANGED cls
    /\ UNCHANGED genVars

NextRecord == CompileRecord

SpecRecord == InitRecord /\ [][NextRecord]_vars

(***************************************************************************)
(* Vocabulary of the properties                                            *)
(***************************************************************************)
\* the loop has just finished an endpoint without raising
JustCompiled == pc \in {"processing", "done"} /\ idx > 1

\* that endpoint and its method entry
Last == services_info[idx - 1]
LastInfo ==
    DictGet(DictGet(openapi_build.paths, NormalPath(Last)), NormalMethod(Last))
Schemas == openapi_build.components.schemas
Parameters == openapi_build.components.parameters

\* the declaration of a group in an endpoint's input record
InputFields(service) == ClassOf(service.serviceInput.name).fields
DeclaresGroup(service, g) ==
    \E i \in 1..Len(InputFields(service)) : InputFields(service)[i].name = g
GroupType(service, g) ==
    InputFields(service)[CHOOSE i \in 1..Len(InputFields(service)) :
                             InputFields(service)[i].name = g].type
\* the property names of a record type: its fields without the marker prefix
PropertyNames(recordName) ==
    {ClassOf(recordName).fields[i].name : i \in
        {j \in 1..Len(ClassOf(recordName).fields) :
            Head(ClassOf(recordName).fields[j].name) # "_"}}

\* the name a "#/components/<collection>/<name>" reference points at
RefTarget(ref, prefix) == SubSeq(ref, Len(prefix) + 1, Len(ref))

(***************************************************************************)
(* C1: for an endpoint whose input declares a pathParameters group of a    *)
(* record type with properties P, whatever the type's name, the compiled   *)
(* method lists exactly one path parameter per property p (name p, in      *)
(* path, required, schema $ref {domainName}PathParameters{p}), registered  *)
(* in components.parameters, and the registry keeps neither the raw        *)
(* pathParameters key nor the aggregate {domainName}PathParameters.        *)
(***************************************************************************)
C1_PathParameterExplosion ==
    (JustCompiled /\ DeclaresGroup(Last, S_pathParameters)
        /\ GroupType(Last, S_pathParameters).k = "dataclass")
    => LET P == PropertyNames(GroupType(Last, S_pathParameters).name)
           aggregate == DomainName(Last) \o S_PathParameters
           list == LastInfo["parameters"]
           isPath(i) ==
               /\ StartsWith(list[i]["$ref"], S_refParameters)
               /\ DictHas(Parameters, RefTarget(list[i]["$ref"], S_refParameters))
               /\ DictGet(Parameters,
                          RefTarget(list[i]["$ref"], S_refParameters))["in"] = "path"
       IN  /\ \A p \in P :
                /\ Cardinality({i \in 1..Len(list) :
                                   list[i] = ParameterRef(aggregate \o p)}) = 1
                /\ DictHas(Parameters, aggregate \o p)
                /\ DictGet(Parameters, aggregate \o p)
                     = ("name" :> p) @@ ("in" :> "path") @@ ("required" :> TRUE)
                       @@ ("schema" :> SchemaRef(aggregate \o p))
           /\ Cardinality({i \in 1..Len(list) : isPath(i)}) = Cardinality(P)
           /\ ~DictHas(Schemas, S_pathParameters)
           /\ ~DictHas(Schemas, aggregate)

(***************************************************************************)
(* C2: compiling endpoint k leaves what endpoints 1..k-1 wrote as it was:  *)
(* every method entry of another (path, method), every components.schemas  *)
(* entry and every components.parameters entry is still there with the     *)
(* same body.                                                              *)
(***************************************************************************)
C2_Preserved ==
    /\ \A i \in 1..Len(Schemas) :
          /\ DictHas(openapi_build'.components.schemas, Schemas[i].key)
          /\ DictGet(openapi_build'.components.schemas, Schemas[i].key)
               = Schemas[i].val
    /\ \A i \in 1..Len(Parameters) :
          /\ DictHas(openapi_build'.components.parameters, Parameters[i].key)
          /\ DictGet(openapi_build'.components.parameters, Parameters[i].key)
               = Parameters[i].val
    /\ \A i \in 1..Len(openapi_build.paths) :
          LET path == openapi_build.paths[i] IN
          \A j \in 1..Len(path.val) :
              (path.key # NormalPath(services_info[idx])
                  \/ path.val[j].key # NormalMethod(services_info[idx]))
              => /\ DictHas(openapi_build'.paths, path.key)
                 /\ DictHas(DictGet(openapi_build'.paths, path.key), path.val[j].key)
                 /\ DictGet(DictGet(openapi_build'.paths, path.key), path.val[j].key)
                      = path.val[j].val

\* C2: a step that compiles endpoint k > 1 without raising preserves all of
\* the above
C2_NoCorruption ==
    [][(pc = "processing" /\ idx > 1 /\ idx <= Len(services_info)
           /\ pc' = "processing")
       => C2_Preserved]_vars

(***************************************************************************)
(* C3: the compiled method entry has a requestBody key exactly when the    *)
(* endpoint's input record declares a non-empty bodyInput group, and then  *)
(* it is {description: "Request body", content: {"application/json":       *)
(* {schema: $ref {domainName}BodyInput}}} for this endpoint's domainName.  *)
(***************************************************************************)
DeclaresBody(service) ==
    /\ DeclaresGroup(service, S_bodyInput)
    /\ GroupType(service, S_bodyInput).k = "dataclass"
    /\ PropertyNames(GroupType(service, S_bodyInput).name) # {}

C3_RequestBody ==
    JustCompiled
    => /\ ("requestBody" \in DOMAIN LastInfo) <=> DeclaresBody(Last)
       /\ ("requestBody" \in DOMAIN LastInfo)
          => LastInfo["requestBody"]
               = ("description" :> "Request body")
                 @@ ("content" :>
                       <<[key |-> S_applicationJson,
                          val |-> ("schema" :>
                                     SchemaRef(DomainName(Last) \o S_BodyInput))]>>)

(***************************************************************************)
(* C4: after an endpoint is compiled whose output declares bodyOutput of   *)
(* record type B with _contentType defaulting to m, responses has the one  *)
(* key 200, equal to {description: "Success", content: {m: {schema: $ref   *)
(* {domainName}B}}}, and the registry holds {domainName}B.                 *)
(***************************************************************************)
MarkerDefault(recordName) ==
    LET fields == ClassOf(recordName).fields
    IN  fields[CHOOSE i \in 1..Len(fields) : fields[i].name = S_contentType].default.str

C4_Responses ==
    JustCompiled
    => LET B == InspectBody(Last).name
           qualified == DomainName(Last) \o B
       IN  /\ Len(LastInfo["responses"]) = 1
           /\ LastInfo["responses"][1].key = IntKey(200)
           /\ LastInfo["responses"][1].val
                = ("description" :> "Success")
                  @@ ("content" :>
                        <<[key |-> MarkerDefault(B),
                           val |-> ("schema" :> SchemaRef(qualified))]>>)
           /\ DictHas(Schemas, qualified)

\* an endpoint with a text/plain body output has been compiled
C4_Witness ==
    /\ JustCompiled
    /\ Last.serviceOutput = T_Dataclass(S_GeoResponse)
    /\ LastInfo["responses"][1].val["content"][1].key = S_textPlain

(***************************************************************************)
(* C5: generate() writes the document only if build_openapi_base made the  *)
(* shell before and every endpoint of the list has its input and output    *)
(* type; when the document is uninitialized or an endpoint lacks a type,   *)
(* generate() ends with an error and nothing is written, not even the part *)
(* compiled so far.                                                        *)
(***************************************************************************)
Complete(service) == service.serviceInput # None /\ service.serviceOutput # None

C5_WriteOnlyWhenValid ==
    /\ output_file # None
       => /\ caller = "generate"
          /\ openapi_build # None
          /\ output_file = openapi_build
          /\ \A i \in 1..Len(services_info) : Complete(services_info[i])
    /\ (caller = "generate" /\ pc \in {"done", "failed"}
           /\ (openapi_build = None \/ ~Complete(endpoint_config)))
       => (pc = "failed" /\ exc = "ValueError" /\ output_file = None)

\* generate() failed on an endpoint without input type after the path item
\* was already created in the document, and the file is not written
C5_Witness ==
    /\ caller = "generate"
    /\ pc = "failed"
    /\ endpoint_config.serviceInput = None
    /\ openapi_build # None
    /\ openapi_build.paths # EmptyDict
    /\ output_file = None

(***************************************************************************)
(* C6: dataclass_to_openapi_schema returns an object schema whose required *)
(* list is the declared-order sequence of the fields that have no marker   *)
(* prefix and whose declared type is not Optional / a union with None; the *)
(* required key is absent when there is no such field.                     *)
(***************************************************************************)
Nullable(t) ==
    t.k \in {"Union", "UnionType"} /\ T_None \in {t.args[i] : i \in 1..Len(t.args)}

ExpectedRequired(c) ==
    LET needed(f) == Head(f.name) # "_" /\ ~Nullable(f.type)
        kept == SelectSeq(c.fields, needed)
    IN  [i \in 1..Len(kept) |-> kept[i].name]

C6_Required ==
    (pcR = "compiled" /\ ~result.err)
    => /\ result.schema["type"] = "object"
       /\ IF ExpectedRequired(cls) = << >>
          THEN "required" \notin DOMAIN result.schema
          ELSE /\ "required" \in DOMAIN result.schema
               /\ result.schema["required"] = ExpectedRequired(cls)

\* {a: str, b_c: Optional[str]} has been compiled to required = [a]
C6_Witness ==
    /\ pcR = "compiled"
    /\ cls.fields = <<Field(S_a, T_str), Field(S_b_c, T_Union(<<T_str, T_None>>))>>
    /\ result.schema["required"] = <<S_a>>

(***************************************************************************)
(* C7: resolving a record type finishes for every record graph, the        *)
(* self-referential ones included: the compilation returns a schema and    *)
(* never runs into the recursion limit.                                    *)
(***************************************************************************)
C7_Terminates == pcR = "compiled" => ~result.err

(***************************************************************************)
(* C8: after an endpoint is compiled the registry holds no transient entry *)
(* of it: no domainName, no raw queryStringParameters, pathParameters or   *)
(* bodyInput key, nothing under the input record's name and nothing under  *)
(* the output record's name.                                               *)
(***************************************************************************)
C8_NoTransient ==
    JustCompiled
    => \A k \in {S_domainName, S_queryStringParameters, S_pathParameters,
                 S_bodyInput, Last.serviceInput.name, Last.serviceOutput.name} :
          ~DictHas(Schemas, k)

(***************************************************************************)
(* C9: after compiling, every $ref in the document names an entry of the   *)
(* components map it points into.                                          *)
(***************************************************************************)
RECURSIVE FragmentRefs(_)
FragmentRefs(frag) ==
    (IF "$ref" \in DOMAIN frag THEN {frag["$ref"]} ELSE {})
    \cup (IF "properties" \in DOMAIN frag
          THEN UNION {FragmentRefs(frag["properties"][i].val) :
                         i \in 1..Len(frag["properties"])}
          ELSE {})
    \cup (IF "items" \in DOMAIN frag THEN FragmentRefs(frag["items"]) ELSE {})
    \cup (IF "oneOf" \in DOMAIN frag
          THEN UNION {FragmentRefs(frag["oneOf"][i]) : i \in 1..Len(frag["oneOf"])}
          ELSE {})

ContentRefs(content) ==
    UNION {FragmentRefs(content[i].val["schema"]) : i \in 1..Len(content)}

MethodRefs(info) ==
    (IF "parameters" \in DOMAIN info
     THEN UNION {FragmentRefs(info["parameters"][i]) :
                    i \in 1..Len(info["parameters"])}
     ELSE {})
    \cup (IF "requestBody" \in DOMAIN info
          THEN ContentRefs(info["requestBody"]["content"]) ELSE {})
    \cup UNION {ContentRefs(info["responses"][i].val["content"]) :
                   i \in 1..Len(info["responses"])}

DocumentRefs ==
    UNION {FragmentRefs(Schemas[i].val) : i \in 1..Len(Schemas)}
    \cup UNION {FragmentRefs(Parameters[i].val["schema"]) : i \in 1..Len(Parameters)}
    \cup UNION {UNION {MethodRefs(openapi_build.paths[i].val[j].val) :
                          j \in 1..Len(openapi_build.paths[i].val)} :
                   i \in 1..Len(openapi_build.paths)}

Resolves(ref) ==
    \/ StartsWith(ref, S_refSchemas) /\ DictHas(Schemas, RefTarget(ref, S_refSchemas))
    \/ StartsWith(ref, S_refParameters)
       /\ DictHas(Parameters, RefTarget(ref, S_refParameters))

C9_NoDanglingRef == JustCompiled => \A ref \in DocumentRefs : Resolves(ref)

(***************************************************************************)
(* C10: with key-casing on, every object schema in components.schemas has  *)
(* each name of its required list among the keys of its properties.        *)
(***************************************************************************)
C10_RequiredWithinProperties ==
    (JustCompiled /\ to_camel_case_schemas)
    => \A i \in 1..Len(Schemas) :
          ("required" \in DOMAIN Schemas[i].val)
          => \A j \in 1..Len(Schemas[i].val["required"]) :
                DictHas(Schemas[i].val["properties"], Schemas[i].val["required"][j])

====
